---- MODULE Spec2Model ----
(***************************************************************************)
(* A model of src/app.py, the Turkey earthquake dashboard: the cached      *)
(* load_and_preprocess_data pipeline (date parsing, quality gates, region  *)
(* extraction) and one pass of the script per control change (sidebar      *)
(* filters, map, treemap aggregation, scatter sample).                     *)
(*                                                                         *)
(* Representation.                                                         *)
(*   - A nullable cell (a pandas value that may be NaN / NaT) is <<>> when *)
(*     it is null and <<v>> when it holds v.                               *)
(*   - A Python name that may be unbound is <<>> while unbound and <<v>>   *)
(*     once bound.                                                         *)
(*   - Floats with one decimal (latitude, longitude, depth, xM) are kept   *)
(*     as integers in tenths: 35 is 3.5, 50 is 5.0, 430 is 43.0.           *)
(*   - A string is a sequence of one-character strings.                    *)
(*   - A DataFrame is a sequence of row records; the field idx is the      *)
(*     pandas index label, which row selection keeps.                      *)
(***************************************************************************)
EXTENDS Integers, Sequences, FiniteSets, TLC

VARIABLES
    raw,              \* the frame pd.read_csv returned, columns renamed
    df,               \* the cached cleaned dataset (unbound before the first load)
    pc,               \* the script's position in the current run
    error,            \* the exception that ended the run, if any
    year_range, mag_range, depth_range, show_large_only,   \* sidebar widgets
    df_filtered,      \* the filtered view
    map_type, map_style, df_map,                           \* chart 1
    treemap_metric, df_region_stats, fig_treemap,          \* chart 2
    color_by, sample_pct, df_scatter                       \* chart 3

vars == <<raw, df, pc, error, year_range, mag_range, depth_range,
          show_large_only, df_filtered, map_type, map_style, df_map,
          treemap_metric, df_region_stats, fig_treemap, color_by,
          sample_pct, df_scatter>>

----------------------------------------------------------------------------
(* Nullable cells and unbound names *)

NaN == <<>>
NaT == <<>>
Unbound == <<>>
Some(v) == <<v>>
isna(x) == x = <<>>
notna(x) == x # <<>>

(* The result of a call that may raise *)
Ok(v) == <<"ok", v>>
Raise(e) == <<"raise", <<e>>>>
IsOk(r) == r[1] = "ok"

----------------------------------------------------------------------------
(* Python string methods on character sequences *)

Whitespace == {" ", "\t"}

Digits == <<"0", "1", "2", "3", "4", "5", "6", "7", "8", "9">>

isdigit(c) == \E i \in 1..Len(Digits) : Digits[i] = c

DigitVal(c) == (CHOOSE i \in 1..Len(Digits) : Digits[i] = c) - 1

RECURSIVE ToInt(_)
\* int(s) of a sequence of digits
ToInt(s) ==
    IF s = <<>> THEN 0
    ELSE 10 * ToInt(SubSeq(s, 1, Len(s) - 1)) + DigitVal(s[Len(s)])

AllDigits(s) == \A i \in 1..Len(s) : isdigit(s[i])

RECURSIVE lstrip(_)
lstrip(s) ==
    IF s # <<>> /\ Head(s) \in Whitespace THEN lstrip(Tail(s)) ELSE s

RECURSIVE rstrip(_)
rstrip(s) ==
    IF s # <<>> /\ s[Len(s)] \in Whitespace
    THEN rstrip(SubSeq(s, 1, Len(s) - 1))
    ELSE s

\* str.strip()
strip(s) == rstrip(lstrip(s))

RECURSIVE SplitOn(_, _, _)
\* str.split(sep) for a one-character sep: the segments between the
\* separators, empty ones kept; cur is the segment being read
SplitOn(s, sep, cur) ==
    IF s = <<>> THEN <<cur>>
    ELSE IF Head(s) = sep
         THEN <<cur>> \o SplitOn(Tail(s), sep, <<>>)
         ELSE SplitOn(Tail(s), sep, Append(cur, Head(s)))

split_sep(s, sep) == SplitOn(s, sep, <<>>)

RECURSIVE SplitWs(_, _)
\* str.split() without arguments: the maximal runs of non-whitespace
SplitWs(s, cur) ==
    IF s = <<>> THEN (IF cur = <<>> THEN <<>> ELSE <<cur>>)
    ELSE IF Head(s) \in Whitespace
         THEN (IF cur = <<>> THEN <<>> ELSE <<cur>>) \o SplitWs(Tail(s), <<>>)
         ELSE SplitWs(Tail(s), Append(cur, Head(s)))

split(s) == SplitWs(s, <<>>)

\* xs[0] of a Python list: IndexError on the empty list
Item0(xs) == IF xs = <<>> THEN Raise("IndexError") ELSE Ok(xs[1])

----------------------------------------------------------------------------
(* pd.to_datetime(format="%Y.%m.%d", errors="coerce") and .dt.year *)

IsLeap(y) == (y % 4 = 0 /\ y % 100 # 0) \/ y % 400 = 0

DaysInMonth(y, m) ==
    IF m = 2 THEN (IF IsLeap(y) THEN 29 ELSE 28)
    ELSE IF m \in {4, 6, 9, 11} THEN 30 ELSE 31

\* One cell of the Date column.  %Y is four digits, %m and %d one or two
\* digits, the dots are literal and the whole value must be consumed; the
\* fields must name a calendar date a Timestamp can hold.  errors="coerce"
\* turns every failure into NaT instead of raising.
to_datetime(d) ==
    IF isna(d) THEN NaT
    ELSE LET parts == split_sep(d[1], ".") IN
         IF Len(parts) # 3 THEN NaT
         ELSE LET Y == parts[1]
                  M == parts[2]
                  D == parts[3]
              IN IF ~ ( /\ Len(Y) = 4 /\ AllDigits(Y)
                        /\ Len(M) \in 1..2 /\ AllDigits(M)
                        /\ Len(D) \in 1..2 /\ AllDigits(D) )
                 THEN NaT
                 ELSE LET y == ToInt(Y)
                          m == ToInt(M)
                          dd == ToInt(D)
                      IN IF /\ y \in 1678..2261
                            /\ m \in 1..12
                            /\ dd \in 1..DaysInMonth(y, m)
                         THEN Some([year |-> y, month |-> m, day |-> dd])
                         ELSE NaT

\* Series.dt.year: null-propagating
dt_year(date) == IF isna(date) THEN NaN ELSE Some(date[1].year)

----------------------------------------------------------------------------
(* Comparisons of a nullable cell with a number: False on NaN *)

GE(x, b) == notna(x) /\ x[1] >= b
LE(x, b) == notna(x) /\ x[1] <= b
GT(x, b) == notna(x) /\ x[1] > b

\* Series.between(lo, hi), inclusive on both sides
between(x, lo, hi) == GE(x, lo) /\ LE(x, hi)

\* df[mask] for a boolean mask as long as the frame: a new frame holding
\* the rows whose mask is True, in order
SelectRows(frame, mask) ==
    LET pos == SelectSeq([i \in 1..Len(frame) |-> i], LAMBDA i : mask[i])
    IN [j \in 1..Len(pos) |-> frame[pos[j]]]

----------------------------------------------------------------------------
(* extract_region *)

Unknown == <<"U", "n", "k", "n", "o", "w", "n">>

\* The first index > i of s holding c, or 0
NextIndex(s, c, i) ==
    IF \E j \in (i + 1)..Len(s) : s[j] = c
    THEN CHOOSE j \in (i + 1)..Len(s) :
            s[j] = c /\ \A k \in (i + 1)..(j - 1) : s[k] # c
    ELSE 0

RECURSIVE re_search_paren(_, _)
\* re.search(r'\(([^)]+)\)', s) tried from position i on: group(1) of the
\* leftmost match, or null.  At a "(" the class [^)]+ runs to the next ")",
\* so the attempt matches iff that ")" exists and is not adjacent.
re_search_paren(s, i) ==
    IF i > Len(s) THEN <<>>
    ELSE IF s[i] = "("
         THEN LET j == NextIndex(s, ")", i) IN
              IF j > i + 1 THEN Some(SubSeq(s, i + 1, j - 1))
              ELSE re_search_paren(s, i + 1)
         ELSE re_search_paren(s, i + 1)

\* extract_region with the hyphen rule tried before the parenthesis rule
extract_region_hyphen_first(loc) ==
    IF isna(loc) THEN Ok(Unknown)
    ELSE LET s == loc[1]
             match == re_search_paren(s, 1)
             parts == split_sep(s, "-")
         IN IF Len(parts) > 1
            THEN Item0(split(strip(parts[Len(parts)])))
            ELSE IF notna(match) THEN Ok(strip(match[1]))
                 ELSE IF s # <<>> THEN Item0(split(s)) ELSE Ok(Unknown)

extract_region(loc) ==
    IF isna(loc) THEN Ok(Unknown)
    ELSE LET s == loc[1]
             match == re_search_paren(s, 1)
             parts == split_sep(s, "-")
         IN IF notna(match) THEN Ok(strip(match[1]))
            ELSE IF Len(parts) > 1
                 THEN Item0(split(strip(parts[Len(parts)])))
                 ELSE IF s # <<>> THEN Item0(split(s)) ELSE Ok(Unknown)

----------------------------------------------------------------------------
(* load_and_preprocess_data *)

\* Lines 40-45: parse Date, derive Year, fill missing Location
Normalize(r) ==
    LET date == to_datetime(r.Date) IN
    [idx |-> r.idx, Date |-> date, Year |-> dt_year(date),
     Latitude |-> r.Latitude, Longitude |-> r.Longitude,
     Depth |-> r.Depth, xM |-> r.xM,
     Location |-> IF isna(r.Location) THEN Some(Unknown) ELSE r.Location]

\* Lines 48-53: the mask of the coordinate selection
CoordMask(frame) ==
    [i \in 1..Len(frame) |->
        /\ between(frame[i].Latitude, 350, 430)
        /\ between(frame[i].Longitude, 250, 450)
        /\ notna(frame[i].Latitude)
        /\ notna(frame[i].Longitude)]

\* Line 56
DepthMask(frame) == [i \in 1..Len(frame) |-> GE(frame[i].Depth, 0)]

\* MagMask with the comparison written >= instead of >
MagMaskNonNegative(frame) == [i \in 1..Len(frame) |-> GE(frame[i].xM, 0)]

\* Line 57
MagMask(frame) == [i \in 1..Len(frame) |-> GT(frame[i].xM, 0)]

\* Clean with a dropna on Date added: rows without a date are lost
CleanDropNaT(frame) ==
    LET a == SelectRows(frame, CoordMask(frame))
        b == SelectRows(a, DepthMask(a))
        c == SelectRows(b, MagMask(b))
    IN SelectRows(c, [i \in 1..Len(c) |-> notna(c[i].Date)])

\* Lines 47-57: the three successive row selections
Clean(frame) ==
    LET a == SelectRows(frame, CoordMask(frame))
        b == SelectRows(a, DepthMask(a))
    IN SelectRows(b, MagMask(b))

WithRegion(r, region) ==
    [idx |-> r.idx, Date |-> r.Date, Year |-> r.Year,
     Latitude |-> r.Latitude, Longitude |-> r.Longitude,
     Depth |-> r.Depth, xM |-> r.xM, Location |-> r.Location,
     Region |-> region]

\* The body of load_and_preprocess_data: the cleaned frame, or the
\* exception extract_region raised inside Series.apply
load_and_preprocess_data(frame) ==
    LET norm == [i \in 1..Len(frame) |-> Normalize(frame[i])]
        kept == Clean(norm)
        regions == [i \in 1..Len(kept) |-> extract_region(kept[i].Location)]
    IN IF \E i \in 1..Len(kept) : ~IsOk(regions[i])
       THEN Raise("IndexError")
       ELSE Ok([i \in 1..Len(kept) |-> WithRegion(kept[i], regions[i][2])])

----------------------------------------------------------------------------
(* Sidebar sliders (lines 85-110) *)

MinOf(S) == CHOOSE x \in S : \A y \in S : x <= y
MaxOf(S) == CHOOSE x \in S : \A y \in S : x >= y

\* The non-null values of a column: Series.min() and .max() skip NaN
ColumnValues(frame, name) ==
    {frame[i][name][1] : i \in {j \in 1..Len(frame) : notna(frame[j][name])}}

\* Slider positions offered besides the two ends of each slider: the
\* defaults of lines 92, 99 and 107
YearStops == {2000}
MagStops == {35}
DepthStops == {0, 1000}

\* The (lo, hi) pairs a range slider over [lo_end, hi_end] can return
RangeChoices(stops, lo_end, hi_end) ==
    LET pos == {p \in stops \cup {lo_end, hi_end} : lo_end <= p /\ p <= hi_end}
    IN {p \in pos \X pos : p[1] <= p[2]}

YearChoices(frame) ==
    LET ys == ColumnValues(frame, "Year") IN
    RangeChoices(YearStops, MinOf(ys), MaxOf(ys))

MagChoices(frame) ==
    LET ms == ColumnValues(frame, "xM") IN
    RangeChoices(MagStops, MinOf(ms), MaxOf(ms))

DepthSliderMax == 2000

DepthChoices(frame) ==
    LET top == MaxOf(ColumnValues(frame, "Depth"))
        cap == IF top < DepthSliderMax THEN top ELSE DepthSliderMax
    IN RangeChoices(DepthStops, 0, cap)

----------------------------------------------------------------------------
(* The filtered view (lines 112-123) *)

LargeMag == 50

\* RangeMask that lets a row without a year through the year range
RangeMaskYearOptional(frame, yr, mr, dr) ==
    [i \in 1..Len(frame) |->
        /\ isna(frame[i].Year)
             \/ (GE(frame[i].Year, yr[1]) /\ LE(frame[i].Year, yr[2]))
        /\ GE(frame[i].xM, mr[1])
        /\ LE(frame[i].xM, mr[2])
        /\ GE(frame[i].Depth, dr[1])
        /\ LE(frame[i].Depth, dr[2])]

\* The six-way conjunction of lines 113-120
RangeMask(frame, yr, mr, dr) ==
    [i \in 1..Len(frame) |->
        /\ GE(frame[i].Year, yr[1])
        /\ LE(frame[i].Year, yr[2])
        /\ GE(frame[i].xM, mr[1])
        /\ LE(frame[i].xM, mr[2])
        /\ GE(frame[i].Depth, dr[1])
        /\ LE(frame[i].Depth, dr[2])]

\* LargeMask with the comparison written > instead of >=
LargeMaskStrict(frame) == [i \in 1..Len(frame) |-> GT(frame[i].xM, LargeMag)]

\* Line 123: df_filtered["xM"] >= 5.0
LargeMask(frame) == [i \in 1..Len(frame) |-> GE(frame[i].xM, LargeMag)]

\* LargeOnly with a threshold taken from the view (above its weakest event)
\* instead of the fixed 5.0
LargeOnlyAboveWeakest(frame, large) ==
    IF large /\ frame # <<>>
    THEN SelectRows(frame, [i \in 1..Len(frame) |->
                               GT(frame[i].xM, MinOf(ColumnValues(frame, "xM")))])
    ELSE frame

\* Lines 122-123
LargeOnly(frame, large) ==
    IF large THEN SelectRows(frame, LargeMask(frame)) ELSE frame

FilterView(frame, yr, mr, dr, large) ==
    LargeOnly(SelectRows(frame, RangeMask(frame, yr, mr, dr)), large)

----------------------------------------------------------------------------
(* Chart 1: the scatter map's frame (lines 149-151) *)

MapTypes == {"Density Map", "Scatter Map"}
MapStyles == {"open-street-map", "carto-positron", "carto-darkmatter"}

\* (xM ** 2) * 2 with xM in tenths: the size in hundredths
WithSize(r) ==
    [idx |-> r.idx, Date |-> r.Date, Year |-> r.Year,
     Latitude |-> r.Latitude, Longitude |-> r.Longitude,
     Depth |-> r.Depth, xM |-> r.xM, Location |-> r.Location,
     Region |-> r.Region, size |-> r.xM[1] * r.xM[1] * 2]

\* df_filtered.copy() with the size column added to the copy
ScatterMapFrame(frame) == [i \in 1..Len(frame) |-> WithSize(frame[i])]

----------------------------------------------------------------------------
(* Chart 2: regional statistics (lines 183-199) *)

\* ord(c) for the characters the model uses
ord(c) ==
    CASE c = "\t" -> 9   [] c = " " -> 32  [] c = "(" -> 40  [] c = ")" -> 41
      [] c = "-" -> 45   [] c = "." -> 46  [] c = "/" -> 47
      [] c = "R" -> 82   [] c = "U" -> 85  [] c = "X" -> 88
      [] c = "a" -> 97   [] c = "b" -> 98  [] c = "k" -> 107
      [] c = "n" -> 110  [] c = "o" -> 111 [] c = "w" -> 119
      [] OTHER -> 48 + DigitVal(c)

RECURSIVE StrLess(_, _)
\* Python's < on strings
StrLess(a, b) ==
    IF b = <<>> THEN FALSE
    ELSE IF a = <<>> THEN TRUE
    ELSE IF Head(a) = Head(b) THEN StrLess(Tail(a), Tail(b))
    ELSE ord(Head(a)) < ord(Head(b))

RECURSIVE SortKeys(_)
\* groupby sorts the group keys
SortKeys(S) ==
    IF S = {} THEN <<>>
    ELSE LET m == CHOOSE x \in S : \A y \in S : x = y \/ StrLess(x, y)
         IN <<m>> \o SortKeys(S \ {m})

\* The values of a column that holds no null, in row order
Values(frame, name) == [i \in 1..Len(frame) |-> frame[i][name][1]]

RECURSIVE SumOf(_)
SumOf(xs) == IF xs = <<>> THEN 0 ELSE Head(xs) + SumOf(Tail(xs))

RECURSIVE MaxOfSeq(_)
MaxOfSeq(xs) ==
    IF Len(xs) = 1 THEN xs[1]
    ELSE LET m == MaxOfSeq(Tail(xs)) IN IF Head(xs) >= m THEN Head(xs) ELSE m

\* A mean kept exact, as the pair <<sum, count>>
Mean(xs) == <<SumOf(xs), Len(xs)>>

\* One row of groupby("Region").agg({"xM": [count, mean, max], "Depth": mean})
GroupStats(frame, region) ==
    LET rows == SelectRows(frame, [i \in 1..Len(frame) |-> frame[i].Region = region])
    IN [Region |-> region, Count |-> Len(rows),
        Avg_Mag |-> Mean(Values(rows, "xM")),
        Max_Mag |-> MaxOfSeq(Values(rows, "xM")),
        Avg_Depth |-> Mean(Values(rows, "Depth"))]

\* Lines 184-188
GroupByRegion(frame) ==
    LET keys == SortKeys({frame[i].Region : i \in 1..Len(frame)})
    IN [k \in 1..Len(keys) |-> GroupStats(frame, keys[k])]

CountThreshold == 10

\* EnoughRows with the comparison written > instead of >=
EnoughRowsStrict(stats) ==
    [k \in 1..Len(stats) |-> stats[k].Count > CountThreshold]

\* Line 189: df_region_stats["Count"] >= 10
EnoughRows(stats) ==
    [k \in 1..Len(stats) |-> stats[k].Count >= CountThreshold]

\* Lines 184-189
RegionStats(frame) ==
    LET stats == GroupByRegion(frame) IN SelectRows(stats, EnoughRows(stats))

RemoveAt(s, i) == SubSeq(s, 1, i - 1) \o SubSeq(s, i + 1, Len(s))

RECURSIVE nlargest(_, _)
\* DataFrame.nlargest(n, "Count"), keep="first": by Count descending, ties
\* in the frame's order
nlargest(n, frame) ==
    IF n = 0 \/ frame = <<>> THEN <<>>
    ELSE LET i == CHOOSE i \in 1..Len(frame) :
                    /\ \A j \in 1..Len(frame) : frame[j].Count <= frame[i].Count
                    /\ \A j \in 1..(i - 1) : frame[j].Count < frame[i].Count
         IN <<frame[i]>> \o nlargest(n - 1, RemoveAt(frame, i))

TopN == 25

TreemapMetrics == {"Earthquake Count", "Average Magnitude", "Maximum Magnitude"}

\* Lines 191-196
ColorCol(metric) ==
    IF metric = "Earthquake Count" THEN "Count"
    ELSE IF metric = "Average Magnitude" THEN "Avg_Mag" ELSE "Max_Mag"

----------------------------------------------------------------------------
(* Chart 3: the scatter sample (lines 224-227) *)

ColorBys == {"Depth", "Magnitude"}
SamplePcts == {10, 50, 100}

\* SampleSize that never asks for fewer than one row
SampleSizeAtLeastOne(pct, len) ==
    LET q == (pct * len) \div 100
        rem == (pct * len) % 100
        n == IF rem > 50 \/ (rem = 50 /\ q % 2 = 1) THEN q + 1 ELSE q
    IN IF n < 1 THEN 1 ELSE n

\* round(frac * len) of DataFrame.sample: Python's round, half to even.
\* The product is taken exactly; the float product differs from it by
\* less than the distance to the next half for the lengths modelled.
SampleSize(pct, len) ==
    LET q == (pct * len) \div 100
        rem == (pct * len) % 100
    IN IF rem > 50 \/ (rem = 50 /\ q % 2 = 1) THEN q + 1 ELSE q

\* How many of the permutations random_state=42 may stand for are tried
MaxOffset == 2

\* DataFrame.sample with a size of n rows, no replacement: ValueError when
\* n exceeds the population.  The seeded generator fixes one draw per
\* length; which one is not modelled, so the draw is the cyclic window of n
\* rows that starts after offset o.
Sample(frame, n, o) ==
    IF n > Len(frame) THEN Raise("ValueError")
    ELSE Ok([j \in 1..n |-> frame[((o + j - 1) % Len(frame)) + 1]])

Offsets(frame, n) ==
    IF n = 0 \/ n > Len(frame) THEN {0}
    ELSE {o \in 0..(MaxOffset - 1) : o < Len(frame)}

----------------------------------------------------------------------------
(* The script, one action per section.  st.cache_data keeps the result of  *)
(* load_and_preprocess_data for the life of the process; every control     *)
(* change runs the whole script again from the top.  The widgets of a run  *)
(* may hold any combination of values: each is reachable by changing one   *)
(* control at a time.  A name is carried only while a later line of the    *)
(* run still reads it; the action after its last use drops it.             *)

\* Line 74: df = load_and_preprocess_data().  The first call computes and
\* caches; later calls return the cached frame.  An exception is not
\* cached and ends the run.
Load ==
    /\ pc = "load"
    /\ IF notna(df)
       THEN /\ pc' = "sidebar"
            /\ UNCHANGED <<df, error>>
       ELSE LET res == load_and_preprocess_data(raw) IN
            IF IsOk(res)
            THEN /\ df' = Some(res[2])
                 /\ pc' = "sidebar"
                 /\ UNCHANGED error
            ELSE /\ pc' = "failed"
                 /\ error' = res[2]
                 /\ UNCHANGED df
    /\ UNCHANGED <<raw, year_range, mag_range, depth_range, show_large_only,
                   df_filtered, map_type, map_style, df_map, treemap_metric,
                   df_region_stats, fig_treemap, color_by, sample_pct,
                   df_scatter>>

\* Lines 85-110.  int(df["Year"].min()) raises ValueError when the column
\* holds no year at all (min() of nothing is NaN).
Sidebar ==
    /\ pc = "sidebar"
    /\ IF ColumnValues(df[1], "Year") = {}
       THEN /\ pc' = "failed"
            /\ error' = Some("ValueError")
            /\ UNCHANGED <<year_range, mag_range, depth_range, show_large_only>>
       ELSE \E yr \in YearChoices(df[1]), mr \in MagChoices(df[1]),
               dr \in DepthChoices(df[1]), large \in BOOLEAN :
            /\ year_range' = Some(yr)
            /\ mag_range' = Some(mr)
            /\ depth_range' = Some(dr)
            /\ show_large_only' = Some(large)
            /\ pc' = "filter"
            /\ UNCHANGED error
    /\ UNCHANGED <<raw, df, df_filtered, map_type, map_style, df_map,
                   treemap_metric, df_region_stats, fig_treemap, color_by,
                   sample_pct, df_scatter>>

\* Lines 112-123
ApplyFilters ==
    /\ pc = "filter"
    /\ df_filtered' = Some(FilterView(df[1], year_range[1], mag_range[1],
                                      depth_range[1], show_large_only[1]))
    /\ pc' = "map"
    /\ UNCHANGED <<raw, df, error, year_range, mag_range, depth_range,
                   show_large_only, map_type, map_style, df_map,
                   treemap_metric, df_region_stats, fig_treemap, color_by,
                   sample_pct, df_scatter>>

\* MapChart with the size column written into the cached frame: the copy
\* is left out and the scatter map reads df
MapChartInPlace ==
    /\ pc = "map"
    /\ \E mt \in MapTypes, ms \in MapStyles :
        /\ map_type' = Some(mt)
        /\ map_style' = Some(ms)
        /\ IF mt = "Scatter Map"
           THEN /\ df' = Some(ScatterMapFrame(df[1]))
                /\ df_map' = df'
           ELSE /\ df_map' = Unbound
                /\ UNCHANGED df
    /\ pc' = "treemap"
    /\ UNCHANGED <<raw, error, year_range, mag_range, depth_range,
                   show_large_only, df_filtered, treemap_metric,
                   df_region_stats, fig_treemap, color_by, sample_pct,
                   df_scatter>>

\* Lines 131-168.  The density map reads df_filtered itself; the scatter
\* map reads a copy that carries the size column.
MapChart ==
    /\ pc = "map"
    /\ \E mt \in MapTypes, ms \in MapStyles :
        /\ map_type' = Some(mt)
        /\ map_style' = Some(ms)
        /\ df_map' = IF mt = "Scatter Map"
                     THEN Some(ScatterMapFrame(df_filtered[1]))
                     ELSE Unbound
    /\ pc' = "treemap"
    /\ UNCHANGED <<raw, df, error, year_range, mag_range, depth_range,
                   show_large_only, df_filtered, treemap_metric,
                   df_region_stats, fig_treemap, color_by, sample_pct,
                   df_scatter>>

\* Lines 178-208
TreemapChart ==
    /\ pc = "treemap"
    /\ \E metric \in TreemapMetrics :
        /\ treemap_metric' = Some(metric)
        /\ df_region_stats' = Some(RegionStats(df_filtered[1]))
        /\ fig_treemap' = Some([data |-> nlargest(TopN, RegionStats(df_filtered[1])),
                                color |-> ColorCol(metric)])
    /\ map_type' = Unbound
    /\ map_style' = Unbound
    /\ df_map' = Unbound
    /\ pc' = "scatter"
    /\ UNCHANGED <<raw, df, error, year_range, mag_range, depth_range,
                   show_large_only, df_filtered, color_by, sample_pct,
                   df_scatter>>

\* Lines 218-247
ScatterChart ==
    /\ pc = "scatter"
    /\ \E cb \in ColorBys, pct \in SamplePcts :
        /\ color_by' = Some(cb)
        /\ sample_pct' = Some(pct)
        /\ IF pct < 100
           THEN LET n == SampleSize(pct, Len(df_filtered[1])) IN
                \E o \in Offsets(df_filtered[1], n) :
                LET res == Sample(df_filtered[1], n, o) IN
                IF IsOk(res)
                THEN /\ df_scatter' = Some(res[2])
                     /\ pc' = "done"
                     /\ UNCHANGED error
                ELSE /\ pc' = "failed"
                     /\ error' = res[2]
                     /\ UNCHANGED df_scatter
           ELSE /\ df_scatter' = df_filtered
                /\ pc' = "done"
                /\ UNCHANGED error
    /\ treemap_metric' = Unbound
    /\ df_region_stats' = Unbound
    /\ fig_treemap' = Unbound
    /\ UNCHANGED <<raw, df, year_range, mag_range, depth_range,
                   show_large_only, df_filtered, map_type, map_style, df_map>>

\* A control change (or a reload of the page): the script runs again from
\* the top with fresh names; only the cache outlives the run
Rerun ==
    /\ pc \in {"done", "failed"}
    /\ pc' = "load"
    /\ error' = Unbound
    /\ year_range' = Unbound
    /\ mag_range' = Unbound
    /\ depth_range' = Unbound
    /\ show_large_only' = Unbound
    /\ df_filtered' = Unbound
    /\ map_type' = Unbound
    /\ map_style' = Unbound
    /\ df_map' = Unbound
    /\ treemap_metric' = Unbound
    /\ df_region_stats' = Unbound
    /\ fig_treemap' = Unbound
    /\ color_by' = Unbound
    /\ sample_pct' = Unbound
    /\ df_scatter' = Unbound
    /\ UNCHANGED <<raw, df>>

----------------------------------------------------------------------------
(* Input tables *)

\* The state of the process before the script's first run
FirstRun ==
    /\ df = Unbound
    /\ pc = "load"
    /\ error = Unbound
    /\ year_range = Unbound
    /\ mag_range = Unbound
    /\ depth_range = Unbound
    /\ show_large_only = Unbound
    /\ df_filtered = Unbound
    /\ map_type = Unbound
    /\ map_style = Unbound
    /\ df_map = Unbound
    /\ treemap_metric = Unbound
    /\ df_region_stats = Unbound
    /\ fig_treemap = Unbound
    /\ color_by = Unbound
    /\ sample_pct = Unbound
    /\ df_scatter = Unbound

\* One CSV row without its index label
Cells(date, lat, lon, depth, mag, loc) ==
    [Date |-> date, Latitude |-> lat, Longitude |-> lon, Depth |-> depth,
     xM |-> mag, Location |-> loc]

\* The frame read_csv builds from a list of rows: a RangeIndex from 0
MkFrame(cells) ==
    [i \in 1..Len(cells) |->
        [idx |-> i - 1, Date |-> cells[i].Date,
         Latitude |-> cells[i].Latitude, Longitude |-> cells[i].Longitude,
         Depth |-> cells[i].Depth, xM |-> cells[i].xM,
         Location |-> cells[i].Location]]

\* Every frame of at most n rows drawn from U
Frames(U, n) == {MkFrame(f) : f \in UNION {[1..k -> U] : k \in 0..n}}

D_2023_02_06 == <<"2", "0", "2", "3", ".", "0", "2", ".", "0", "6">>
D_1999_08_17 == <<"1", "9", "9", "9", ".", "0", "8", ".", "1", "7">>
D_2024_02_29 == <<"2", "0", "2", "4", ".", "0", "2", ".", "2", "9">>
D_2023_2_6 == <<"2", "0", "2", "3", ".", "2", ".", "6">>
D_06_02_2023 == <<"0", "6", "-", "0", "2", "-", "2", "0", "2", "3">>
D_2023_02_29 == <<"2", "0", "2", "3", ".", "0", "2", ".", "2", "9">>
D_2023_13_01 == <<"2", "0", "2", "3", ".", "1", "3", ".", "0", "1">>
D_slashes == <<"2", "0", "2", "3", "/", "0", "2", "/", "0", "6">>
D_compact == <<"2", "0", "2", "3", "0", "2", "0", "6">>
D_short == <<"2", "0", "2", "3", ".", "0", "2">>
D_long == <<"2", "0", "2", "3", ".", "0", "2", ".", "0", "6", ".", "1">>
D_letters == <<"a", "b", ".", "0", "2", ".", "0", "6">>
D_year5 == <<"2", "0", "2", "3", "0", ".", "0", "2", ".", "0", "6">>

L_a_b == <<"a", "-", "b">>

\* Rows that pass the quality gates, for the runs of the whole script
RunRows ==
    {Cells(d, Some(390), Some(350), Some(z), Some(m), Some(L_a_b)) :
        d \in {Some(D_06_02_2023), Some(D_2023_02_06)},
        z \in {0, 1500}, m \in {49, 50}}

MaxRows == 2

Init ==
    /\ raw \in Frames(RunRows, MaxRows)
    /\ FirstRun

Next == Load \/ Sidebar \/ ApplyFilters \/ MapChart \/ TreemapChart
        \/ ScatterChart \/ Rerun

Spec == Init /\ [][Next]_vars

----------------------------------------------------------------------------
(* The filter layer alone, on a wider choice of rows *)

ViewRows ==
    {Cells(d, Some(390), Some(350), Some(z), Some(m), Some(L_a_b)) :
        d \in {Some(D_06_02_2023), Some(D_1999_08_17), Some(D_2023_02_06)},
        z \in {0, 1500}, m \in {35, 49, 50, 90}}

MaxViewRows == 2

InitFilter ==
    /\ raw \in Frames(ViewRows, MaxViewRows)
    /\ FirstRun

NextFilter == Load \/ Sidebar \/ ApplyFilters

SpecFilter == InitFilter /\ [][NextFilter]_vars

----------------------------------------------------------------------------
(* The cleaning step alone: rows on both sides of every quality gate and   *)
(* dates on both sides of the template, alone or beside a row that passes  *)

DateCells ==
    {NaN, Some(D_2023_02_06), Some(D_1999_08_17), Some(D_2024_02_29),
     Some(D_2023_2_6), Some(D_06_02_2023), Some(D_2023_02_29),
     Some(D_2023_13_01), Some(D_slashes), Some(D_compact), Some(D_short),
     Some(D_long), Some(D_letters), Some(D_year5)}

GateRows ==
    {Cells(d, lat, lon, z, m, loc) :
        d \in DateCells,
        lat \in {NaN, Some(349), Some(350), Some(430), Some(431)},
        lon \in {NaN, Some(249), Some(250), Some(450), Some(451)},
        z \in {NaN, Some(-1), Some(0), Some(100)},
        m \in {NaN, Some(-10), Some(0), Some(1), Some(50)},
        loc \in {NaN, Some(L_a_b)}}

GoodRow ==
    Cells(Some(D_2023_02_06), Some(390), Some(350), Some(100), Some(50),
          Some(L_a_b))

InitClean ==
    /\ raw \in {MkFrame(<<r>>) : r \in GateRows}
               \cup {MkFrame(<<r, GoodRow>>) : r \in GateRows}
               \cup {MkFrame(<<GoodRow, r>>) : r \in GateRows}
    /\ FirstRun

NextLoad == Load

SpecClean == InitClean /\ [][NextLoad]_vars

----------------------------------------------------------------------------
(* Region extraction alone: one row that passes the gates, its Location    *)
(* any string over a small alphabet.  read_csv reads an empty field as     *)
(* NaN, so the empty string is not among them; the missing value is.       *)

RegionChars == {"a", " ", "(", ")", "-"}

MaxLen == 6

Strings(chars, n) == UNION {[1..k -> chars] : k \in 1..n}

InitRegion ==
    /\ raw \in {MkFrame(<<Cells(Some(D_2023_02_06), Some(390), Some(350),
                                Some(100), Some(50), loc)>>) :
                   loc \in {NaN} \cup {Some(s) : s \in Strings(RegionChars, MaxLen)}}
    /\ FirstRun

SpecRegion == InitRegion /\ [][NextLoad]_vars

----------------------------------------------------------------------------
(* Catalogs large enough for the treemap's thresholds: n regions of c rows *)
(* each, one more row in the regions of extra.  The extra row has xM 4.9,  *)
(* so the large-only switch removes it; the three ways of writing a        *)
(* location are used in turn.                                              *)

RegionLabel(i) == <<"R", Digits[(i \div 10) + 1], Digits[(i % 10) + 1]>>

RegionLocation(i) ==
    IF i % 3 = 0 THEN RegionLabel(i) \o <<" ", "X">>
    ELSE IF i % 3 = 1 THEN <<"X", "-">> \o RegionLabel(i)
    ELSE <<"X", " ", "(">> \o RegionLabel(i) \o <<")">>

RegionRow(i, j) ==
    Cells(Some(D_2023_02_06), Some(390), Some(350), Some(100 * (j % 2)),
          Some(50 + 10 * (j % 3)), Some(RegionLocation(i)))

ExtraRow(i) ==
    Cells(Some(D_2023_02_06), Some(390), Some(350), Some(0), Some(49),
          Some(RegionLocation(i)))

RECURSIVE CatalogRows(_, _, _)
\* The rows of regions n down to 1
CatalogRows(n, c, extra) ==
    IF n = 0 THEN <<>>
    ELSE [j \in 1..c |-> RegionRow(n, j)]
         \o (IF n \in extra THEN <<ExtraRow(n)>> ELSE <<>>)
         \o CatalogRows(n - 1, c, extra)

RegionNumbers == {3, 26, 27}
RowsPerRegion == {9, 10}
ExtraSets(n) == {{}, {1}, {i \in 1..n : i % 2 = 1}, 1..n}

InitAgg ==
    /\ raw \in {MkFrame(CatalogRows(n, c, extra)) :
                   <<n, c, extra>> \in
                       UNION {{<<k, cc, e>> : cc \in RowsPerRegion, e \in ExtraSets(k)} :
                              k \in RegionNumbers}}
    /\ FirstRun

SpecAgg == InitAgg /\ [][Next]_vars

----------------------------------------------------------------------------
(* Properties.  What a property expects is written from the row values,    *)
(* with quantifiers and sets, not with the operators above.                *)

Rows(frame) == {frame[i] : i \in 1..Len(frame)}

\* The four quality gates on one raw row
PassesGates(r) ==
    /\ r.Latitude # NaN /\ r.Latitude[1] >= 350 /\ r.Latitude[1] <= 430
    /\ r.Longitude # NaN /\ r.Longitude[1] >= 250 /\ r.Longitude[1] <= 450
    /\ r.Depth # NaN /\ r.Depth[1] >= 0
    /\ r.xM # NaN /\ r.xM[1] > 0

\* C1: the cleaned dataset holds exactly the raw rows that pass the four
\* quality gates (latitude in [35, 43], longitude in [25, 45], depth >= 0,
\* magnitude > 0, all present): every kept row satisfies the bounds with
\* its values untouched, and no passing row is dropped.
C1_CleanKeepsExactlyGatedRows ==
    notna(df) =>
        /\ \A i \in 1..Len(raw) :
              PassesGates(raw[i]) <=>
                  \E j \in 1..Len(df[1]) : df[1][j].idx = raw[i].idx
        /\ \A j \in 1..Len(df[1]) :
              /\ PassesGates(df[1][j])
              /\ \E i \in 1..Len(raw) :
                    /\ raw[i].idx = df[1][j].idx
                    /\ raw[i].Latitude = df[1][j].Latitude
                    /\ raw[i].Longitude = df[1][j].Longitude
                    /\ raw[i].Depth = df[1][j].Depth
                    /\ raw[i].xM = df[1][j].xM
        /\ Len(df[1]) = Cardinality({df[1][j].idx : j \in 1..Len(df[1])})

\* A row just outside the latitude bound is dropped beside one that is kept
C1_Witness ==
    /\ notna(df)
    /\ Len(raw) = 2
    /\ raw[1].Latitude = Some(431)
    /\ PassesGates(raw[2])
    /\ Len(df[1]) = 1
    /\ df[1][1].idx = 1

----------------------------------------------------------------------------
\* The dates of DateCells that fit %Y.%m.%d (a four-digit year, a month and
\* a day of one or two digits, a date of the calendar), with their year
TemplateDates ==
    {<<D_2023_02_06, 2023>>, <<D_1999_08_17, 1999>>, <<D_2024_02_29, 2024>>,
     <<D_2023_2_6, 2023>>}

TemplateYear(d) ==
    IF d # NaN /\ \E p \in TemplateDates : p[1] = d[1]
    THEN Some((CHOOSE p \in TemplateDates : p[1] = d[1])[2])
    ELSE NaN

----------------------------------------------------------------------------
\* s[i..j] is a parenthetical group with text in it
IsGroup(s, i, j) ==
    /\ i + 1 < j
    /\ s[i] = "("
    /\ s[j] = ")"
    /\ \A k \in (i + 1)..(j - 1) : s[k] # ")"

HasGroup(s) == \E i, j \in 1..Len(s) : IsGroup(s, i, j)

FirstGroupText(s) ==
    LET starts == {i \in 1..Len(s) : \E j \in 1..Len(s) : IsGroup(s, i, j)}
        i == CHOOSE a \in starts : \A b \in starts : a <= b
        j == CHOOSE b \in 1..Len(s) : IsGroup(s, i, b)
    IN SubSeq(s, i + 1, j - 1)

Inked(u) == {k \in 1..Len(u) : u[k] \notin Whitespace}

HasToken(u) == Inked(u) # {}

\* u without the whitespace at its ends
TrimmedText(u) ==
    IF Inked(u) = {} THEN <<>>
    ELSE SubSeq(u, CHOOSE a \in Inked(u) : \A k \in Inked(u) : a <= k,
                   CHOOSE b \in Inked(u) : \A k \in Inked(u) : b >= k)

\* The first maximal run of non-whitespace of u, which has one
FirstTokenOf(u) ==
    LET a == CHOOSE x \in Inked(u) : \A k \in Inked(u) : x <= k
        b == CHOOSE y \in a..Len(u) :
                /\ \A k \in a..y : k \in Inked(u)
                /\ y = Len(u) \/ (y + 1) \notin Inked(u)
    IN SubSeq(u, a, b)

HasHyphen(s) == \E k \in 1..Len(s) : s[k] = "-"

\* What follows the last hyphen of s, which has one
LastSegment(s) ==
    LET h == CHOOSE k \in 1..Len(s) :
                s[k] = "-" /\ \A m \in (k + 1)..Len(s) : s[m] # "-"
    IN SubSeq(s, h + 1, Len(s))

\* C2: on a non-null location the rules apply in strict priority order.
\* (1) A parenthetical group with text: the region is the trimmed text of
\* the first such group, whatever hyphens or later groups the string has.
\* (2) Otherwise, with a hyphen: the first token of the trimmed last
\* segment.  (3) Otherwise the first token of the whole string.  A rule
\* that applies is never passed over: where its segment holds no token the
\* call raises IndexError and no later rule is tried.
C2_RulesInPriorityOrder ==
    (pc # "load" /\ notna(raw[1].Location)) =>
        LET s == raw[1].Location[1]
            returned(v) == pc = "sidebar" /\ Len(df[1]) = 1 /\ df[1][1].Region = v
            raised == pc = "failed" /\ error = Some("IndexError")
        IN /\ HasGroup(s) => returned(TrimmedText(FirstGroupText(s)))
           /\ (~HasGroup(s) /\ HasHyphen(s)) =>
                 IF HasToken(LastSegment(s))
                 THEN returned(FirstTokenOf(TrimmedText(LastSegment(s))))
                 ELSE raised
           /\ (~HasGroup(s) /\ ~HasHyphen(s)) =>
                 IF HasToken(s) THEN returned(FirstTokenOf(s)) ELSE raised

\* "(a)-aa": a group and a hyphen, and the group wins
C2_Witness ==
    /\ pc = "sidebar"
    /\ raw[1].Location = Some(<<"(", "a", ")", "-", "a", "a">>)
    /\ df[1][1].Region = <<"a">>

\* C3: region extraction is total and never yields an empty label: on every
\* location string, also a whitespace-only one, one that ends in a hyphen
\* and one whose first group holds only whitespace, it returns a label
\* without raising, "Unknown" where the rules leave nothing.
C3_RegionTotalNeverEmpty ==
    pc # "load" =>
        /\ pc = "sidebar"
        /\ notna(df)
        /\ \A j \in 1..Len(df[1]) : df[1][j].Region # <<>>

----------------------------------------------------------------------------
\* The three inclusive ranges on one row, from its values
InRanges(r, yr, mr, dr) ==
    /\ r.Year # NaN /\ yr[1] <= r.Year[1] /\ r.Year[1] <= yr[2]
    /\ mr[1] <= r.xM[1] /\ r.xM[1] <= mr[2]
    /\ dr[1] <= r.Depth[1] /\ r.Depth[1] <= dr[2]

\* C5: the filtered view is exactly the rows of the cleaned dataset with
\* year, magnitude and depth inside their inclusive ranges; with large-only
\* set the magnitude's lower bound is max(mag_lo, 5.0), and the view is the
\* one large-only off gives for the range [max(mag_lo, 5.0), mag_hi].
C5_FilteredViewIsExact ==
    notna(df_filtered) =>
        LET yr == year_range[1]
            mr == mag_range[1]
            dr == depth_range[1]
            lo == IF show_large_only[1] /\ mr[1] < 50 THEN 50 ELSE mr[1]
            want == {r \in Rows(df[1]) : InRanges(r, yr, <<lo, mr[2]>>, dr)}
        IN /\ Rows(df_filtered[1]) = want
           /\ Len(df_filtered[1]) = Cardinality(want)
           /\ show_large_only[1] =>
                 df_filtered[1] = FilterView(df[1], yr, <<lo, mr[2]>>, dr, FALSE)

\* Large-only over [3.5, 9.0]: the 3.5 row goes, the 9.0 row stays
C5_Witness ==
    /\ notna(df_filtered)
    /\ show_large_only = Some(TRUE)
    /\ mag_range = Some(<<35, 90>>)
    /\ Len(df[1]) = 2
    /\ Len(df_filtered[1]) = 1
    /\ df_filtered[1][1].xM = Some(90)

\* C8: filtering the filtered view again with the same four constraints
\* returns the same rows.
C8_FilterIdempotent ==
    notna(df_filtered) =>
        FilterView(df_filtered[1], year_range[1], mag_range[1],
                   depth_range[1], show_large_only[1]) = df_filtered[1]

\* A view that lost one of two rows and is filtered again
C8_Witness ==
    /\ notna(df_filtered)
    /\ Len(df[1]) = 2
    /\ Len(df_filtered[1]) = 1
    /\ show_large_only = Some(TRUE)

----------------------------------------------------------------------------
\* C10: a cleaned row with a null year is in no filtered view, so in no
\* scatter-map frame and no scatter sample, whatever the controls.
C10_NullYearNeverInView ==
    /\ notna(df_filtered) => \A i \in 1..Len(df_filtered[1]) : df_filtered[1][i].Year # NaN
    /\ notna(df_map) => \A i \in 1..Len(df_map[1]) : df_map[1][i].Year # NaN
    /\ notna(df_scatter) => \A i \in 1..Len(df_scatter[1]) : df_scatter[1][i].Year # NaN

\* The cleaned dataset holds a null-year row and the view holds the other
C10_Witness ==
    /\ notna(df_scatter)
    /\ Len(df[1]) = 2
    /\ \E i \in 1..2 : df[1][i].Year = NaN
    /\ Len(df_filtered[1]) = 1
    /\ Len(df_scatter[1]) = 1

\* C7: with an empty filtered view the run goes on without an exception:
\* the scatter-map frame is empty, the aggregation has no group, the treemap
\* gets no row, and the scatter subset is empty for every sample percentage.
C7_EmptyViewRunsThrough ==
    (notna(df_filtered) /\ df_filtered[1] = <<>>) =>
        /\ pc # "failed" /\ error = Unbound
        /\ notna(df_map) => df_map[1] = <<>>
        /\ notna(df_region_stats) => df_region_stats[1] = <<>>
        /\ notna(fig_treemap) => fig_treemap[1].data = <<>>
        /\ pc = "done" => df_scatter = Some(<<>>)

\* The end of a run over an empty view, sampled at 10 percent
C7_Witness ==
    /\ pc = "done"
    /\ df_filtered = Some(<<>>)
    /\ Len(df[1]) > 0
    /\ sample_pct = Some(10)
    /\ df_scatter = Some(<<>>)

\* C9: once loaded, the cached cleaned dataset never changes: no step of
\* any run (filter, size column, aggregation, sample) touches its rows,
\* columns or values.
C9_CachedDatasetImmutable == [][notna(df) => df' = df]_vars

\* The scatter map's copy carries the size column and the dataset does not
C9_Witness ==
    /\ pc = "treemap"
    /\ notna(df_map)
    /\ Len(df_map[1]) > 0
    /\ "size" \in DOMAIN df_map[1][1]
    /\ "size" \notin DOMAIN df[1][1]
    /\ "size" \notin DOMAIN df_filtered[1][1]

----------------------------------------------------------------------------
RegionRowsOf(view, g) == {i \in 1..Len(view) : view[i].Region = g}

RECURSIVE SumCells(_, _, _)
\* The sum of column name over the rows of view numbered in S
SumCells(view, name, S) ==
    IF S = {} THEN 0
    ELSE LET i == CHOOSE x \in S : TRUE
         IN view[i][name][1] + SumCells(view, name, S \ {i})

\* C6: the treemap gets only regions with at least 10 rows in the view (9
\* is out, 10 is in), at most 25 of them and all of them when 25 or fewer
\* are eligible; no eligible region left out has more rows than one that is
\* in; and each region's Count, Avg_Mag, Max_Mag and Avg_Depth are the
\* count, mean magnitude, largest magnitude and mean depth of its rows.
C6_TreemapRegions ==
    notna(fig_treemap) =>
        LET view == df_filtered[1]
            top == fig_treemap[1].data
            n(g) == Cardinality(RegionRowsOf(view, g))
            eligible == {g \in {view[i].Region : i \in 1..Len(view)} : n(g) >= 10}
            shown == {top[k].Region : k \in 1..Len(top)}
        IN /\ shown \subseteq eligible
           /\ Len(top) = Cardinality(shown)
           /\ Len(top) <= 25
           /\ Len(top) = (IF Cardinality(eligible) <= 25
                          THEN Cardinality(eligible) ELSE 25)
           /\ \A g \in eligible \ shown : \A h \in shown : n(g) <= n(h)
           /\ \A k \in 1..Len(top) :
                LET S == RegionRowsOf(view, top[k].Region) IN
                /\ top[k].Count = Cardinality(S)
                /\ top[k].Avg_Mag = <<SumCells(view, "xM", S), Cardinality(S)>>
                /\ top[k].Avg_Depth = <<SumCells(view, "Depth", S), Cardinality(S)>>
                /\ \E i \in S : view[i].xM[1] = top[k].Max_Mag
                /\ \A i \in S : view[i].xM[1] <= top[k].Max_Mag

\* 27 eligible regions, some of 10 rows and some of 11: 25 are shown
C6_Witness ==
    /\ notna(fig_treemap)
    /\ Len(fig_treemap[1].data) = 25
    /\ Len(df_region_stats[1]) = 27
    /\ \E k \in 1..25 : fig_treemap[1].data[k].Count = 11
    /\ \E k \in 1..25 : fig_treemap[1].data[k].Count = 10

====
